---- MODULE Spec2Model ----
(***************************************************************************)
(* Model of the client-side data synchronisation layer of the FinSmart     *)
(* dashboard: the Error Classifier and the retry wrappers, the Sync Store  *)
(* hooks (useGoals, useCategories, useTransactions, useChatHistory) with   *)
(* their local cache and change-event subscription, and the mutation hooks *)
(* with their optimistic patches.                                          *)
(*                                                                         *)
(* Three specifications share the module; each one leaves the variables of *)
(* the other two at their initial value:                                   *)
(*   SpecRetry  the retry wrappers running one remote operation            *)
(*   SpecStore  one Sync Store hook of one entity type                     *)
(*   SpecMut    the mutation entry points and the optimistic views         *)
(***************************************************************************)
EXTENDS Integers, Sequences, FiniteSets, TLC

VARIABLES rw,          \* the retry wrapper's frame: position, counters, errors
          svc,         \* one createTransaction / deleteTransaction call and the rows it touches
          contrib,     \* two addContribution calls on one goal and the goal's row
          etype,       \* entity type the Sync Store hook is for
          user,        \* useUser().user?.id, or NoUser
          mounted,     \* the hook's component: "initial", "mounted" or "unmounted"
          coll,        \* the hook's exposed Collection (useState)
          loading,     \* the hook's loading flag
          error,       \* the hook's error message, or NoError
          offset,      \* useTransactions: offset state
          hasMore,     \* useTransactions: hasMore state
          cache,       \* localStorage entry per owner, or NoEntry
          remote,      \* the remote store's rows per owner
          calls,       \* list calls in flight
          channel,     \* owner the realtime channel is subscribed for, or NoUser
          online,      \* navigator.onLine
          now,         \* Date.now()
          cats,        \* categories state of the caller of useUpdateCategory
          srvGoals,    \* financial_goals rows of the user in the remote store
          dbGoals,     \* Goals component: goals from useGoals
          optimisticGoals, \* Goals component: optimisticGoals state
          optimisticTransactions, \* AppProvider: optimisticTransactions state
          hooks,       \* busy flag and error state of each mutation hook
          pending,     \* mutations whose Entity Service call is unresolved
          remoteCalls, \* number of Entity Service calls the mutations started
          patches,     \* number of optimistic patch applications
          lastMut,     \* what the last entry point or continuation did
          srvTransactions, \* transactions rows of the user in the remote store
          dbTransactions,  \* AppProvider: transactions from useTransactions
          timers,      \* AppProvider.addExpense: setTimeout callbacks not yet run
          localCache   \* localStorage entries useGoals and useTransactions write

retryVars == <<rw, svc, contrib>>
storeVars == <<etype, user, mounted, coll, loading, error, offset, hasMore,
               cache, remote, calls, channel>>
mutVars   == <<online, now, cats, srvGoals, dbGoals, optimisticGoals,
               optimisticTransactions, hooks, pending, remoteCalls, patches,
               lastMut, srvTransactions, dbTransactions, timers, localCache>>
txVars    == <<srvTransactions, dbTransactions, timers, localCache>>
vars      == <<retryVars, storeVars, mutVars>>

MinOfFirst(a, b) == a
Min(a, b) == IF a <= b THEN a ELSE b
Max(a, b) == IF a >= b THEN a ELSE b

(***************************************************************************)
(* Error Classifier (lib/supabase/errors.ts)                               *)
(***************************************************************************)

AUTH_ERROR       == "AUTH_ERROR"
NETWORK_ERROR    == "NETWORK_ERROR"
PERMISSION_ERROR == "PERMISSION_ERROR"
VALIDATION_ERROR == "VALIDATION_ERROR"
UNKNOWN_ERROR    == "UNKNOWN_ERROR"

SupabaseErrorType ==
  {AUTH_ERROR, NETWORK_ERROR, PERMISSION_ERROR, VALIDATION_ERROR, UNKNOWN_ERROR}

ERROR_MESSAGES ==
  [t \in SupabaseErrorType |->
     CASE t = AUTH_ERROR       -> "Authentication failed. Please log in again."
       [] t = NETWORK_ERROR    -> "Network error. Please check your connection."
       [] t = PERMISSION_ERROR -> "You don't have permission to perform this action."
       [] t = VALIDATION_ERROR -> "Invalid data. Please check your input."
       [] t = UNKNOWN_ERROR    -> "An unexpected error occurred. Please try again."]

\* String.prototype.includes for the needles the classifier looks for.
Includes(text, needle) ==
  CASE needle = "fetch" ->
         text \in {"Failed to fetch", "fetch failed",
                   "NetworkError when attempting to fetch resource."}
    [] needle = "Failed to fetch" -> text = "Failed to fetch"
    [] needle = "NetworkError" ->
         text = "NetworkError when attempting to fetch resource."
    [] OTHER -> text = needle

\* A raised value as the classifier sees it:
\*   cls      "SupabaseError" (instanceof), "AuthError" (name or __isAuthError),
\*            "TypeError" (instanceof), "Error" or "Object" (anything else)
\*   type     the type field of a SupabaseError
\*   code     error.code ("" when absent)
\*   pre      prefix handleError put before the message ("" when none)
\*   text     the message text
\*   details  error.details is truthy
MkError(cls, type, code, pre, text, details) ==
  [cls |-> cls, type |-> type, code |-> code, pre |-> pre, text |-> text,
   details |-> details]

HasMessage(e) == e.pre # "" \/ e.text # ""

SupabaseError(pre, text, type) == MkError("SupabaseError", type, "", pre, text, FALSE)

transformPostgrestError(e) ==
  IF e.code = "PGRST301"
    THEN SupabaseError("", ERROR_MESSAGES[PERMISSION_ERROR], PERMISSION_ERROR)
  ELSE IF e.code = "23505"
    THEN SupabaseError("", "This record already exists.", VALIDATION_ERROR)
  ELSE IF e.code = "23503"
    THEN SupabaseError("", "Invalid reference. The related record does not exist.",
                       VALIDATION_ERROR)
  ELSE IF HasMessage(e) THEN SupabaseError(e.pre, e.text, UNKNOWN_ERROR)
  ELSE SupabaseError("", ERROR_MESSAGES[UNKNOWN_ERROR], UNKNOWN_ERROR)

transformAuthErrorAlwaysAuth(e) ==
  SupabaseError(e.pre, IF HasMessage(e) THEN e.text ELSE ERROR_MESSAGES[AUTH_ERROR],
                AUTH_ERROR)
transformAuthError(e) ==
  IF Includes(e.text, "Invalid login credentials")
    THEN SupabaseError("", "Invalid email or password.", AUTH_ERROR)
  ELSE IF Includes(e.text, "Email not confirmed")
    THEN SupabaseError("", "Please confirm your email address before logging in.",
                       AUTH_ERROR)
  ELSE IF Includes(e.text, "User already registered")
    THEN SupabaseError("", "An account with this email already exists.",
                       VALIDATION_ERROR)
  ELSE IF HasMessage(e) THEN SupabaseError(e.pre, e.text, AUTH_ERROR)
  ELSE SupabaseError("", ERROR_MESSAGES[AUTH_ERROR], AUTH_ERROR)

transformError(e) ==
  IF e.cls = "SupabaseError" THEN e
  ELSE IF e.cls = "AuthError" THEN transformAuthError(e)
  ELSE IF e.code # "" /\ HasMessage(e) /\ e.details THEN transformPostgrestError(e)
  ELSE IF e.cls = "TypeError" /\ Includes(e.text, "fetch")
    THEN SupabaseError("", ERROR_MESSAGES[NETWORK_ERROR], NETWORK_ERROR)
  ELSE IF Includes(e.text, "NetworkError") \/ Includes(e.text, "Failed to fetch")
    THEN SupabaseError("", ERROR_MESSAGES[NETWORK_ERROR], NETWORK_ERROR)
  ELSE IF HasMessage(e) THEN SupabaseError(e.pre, e.text, UNKNOWN_ERROR)
  ELSE SupabaseError("", ERROR_MESSAGES[UNKNOWN_ERROR], UNKNOWN_ERROR)

isNetworkError(e) == transformError(e).type = NETWORK_ERROR

\* The failures the remote store, the auth subsystem and the network raise.
RawErrors ==
  { MkError("Object", "", c, "", t, TRUE) :
      c \in {"PGRST301", "23505", "23503", "08000", "42501"},
      t \in {"duplicate key value violates unique constraint",
             "new row violates row-level security policy"} }
  \cup { MkError("Object", "", "PGRST301", "", "JWT expired", FALSE) }
  \cup { MkError("AuthError", "", "", "", t, FALSE) :
           t \in {"Invalid login credentials", "Email not confirmed",
                  "User already registered", "JWT expired"} }
  \cup { MkError("TypeError", "", "", "", t, FALSE) :
           t \in {"Failed to fetch", "fetch failed",
                  "NetworkError when attempting to fetch resource."} }
  \cup { MkError("Error", "", "", "", t, FALSE) : t \in {"", "Failed to fetch"} }
  \cup { SupabaseError("", ERROR_MESSAGES[t], t) : t \in SupabaseErrorType }

NoRawError == MkError("None", "", "", "", "", FALSE)

(***************************************************************************)
(* Backoff Policy and Remote Operation Wrapper (lib/supabase/retry.ts) and *)
(* the retry helper each Entity Service file defines for itself            *)
(***************************************************************************)

\* Largest maxRetries of a caller-supplied RetryOptions the model explores.
MaxCustomRetries == 3

\* Math.random() in hundredths: the draws the model explores, all in [0, 1).
RandomDraws == {0, 50, 99}

RetryConfig(name, maxRetries, baseDelay, maxDelay, shouldRetry) ==
  [name |-> name, maxRetries |-> maxRetries, baseDelay |-> baseDelay,
   maxDelay |-> maxDelay, shouldRetry |-> shouldRetry]

DEFAULT_RETRY_OPTIONS == RetryConfig("default", 3, 1000, 10000, "network")

withDatabaseRetry == RetryConfig("database", 3, 1000, 5000, "database")

withAuthRetry == RetryConfig("auth", 2, 1000, 3000, "network")

\* withRetry(operation, options): options override the defaults field by field.
CustomOptions ==
  { [DEFAULT_RETRY_OPTIONS EXCEPT !.name = "custom", !.maxRetries = m,
                                  !.shouldRetry = p, !.maxDelay = d] :
      m \in 0..MaxCustomRetries, p \in {"always", "never"},
      d \in {DEFAULT_RETRY_OPTIONS.maxDelay, 1500} }

RetryConfigs ==
  {DEFAULT_RETRY_OPTIONS, withDatabaseRetry, withAuthRetry} \cup CustomOptions

\* config.shouldRetry(error)
shouldRetryUnlessAuth(config, e) == transformError(e).type # AUTH_ERROR
shouldRetry(config, e) ==
  CASE config.shouldRetry = "network"  -> isNetworkError(e)
    [] config.shouldRetry = "database" ->
         isNetworkError(e) \/ e.code = "PGRST301" \/ e.code = "08000"
    [] config.shouldRetry = "always"   -> TRUE
    [] config.shouldRetry = "never"    -> FALSE

\* calculateBackoffDelay, with Math.random() = r / 100
calculateBackoffDelayLinear(attempt, baseDelay, maxDelay, r) ==
  Min((baseDelay * (attempt + 1) * (50 + r)) \div 100, maxDelay)
calculateBackoffDelay(attempt, baseDelay, maxDelay, r) ==
  LET exponentialDelay == baseDelay * 2^attempt
      jitterPct        == 50 + r
      delayWithJitter  == (exponentialDelay * jitterPct) \div 100
  IN  Min(delayWithJitter, maxDelay)

\* The operations of the Entity Services, named as their handleError call names them.
ServiceOps ==
  {"get goals", "create goal", "update goal", "delete goal",
   "add contribution to goal", "get categories", "create category",
   "update category", "delete category", "get transactions",
   "create transaction", "delete transaction", "get messages",
   "create message", "clear history"}

\* maxRetries and baseDelay defaults of the services' own withRetry
ServiceMaxRetries == 3
ServiceBaseDelay == 1000

\* handleError: throw new Error(`Failed to ${operation}: ${error.message || 'Unknown error'}`)
handleError(e, operation) ==
  MkError("Error", "", "", operation,
          IF HasMessage(e) THEN e.text ELSE "Unknown error", FALSE)

RetryFrame(impl, config, op) ==
  [pc |-> "call", impl |-> impl, config |-> config, op |-> op, attempt |-> 0,
   calls |-> 0, waits |-> 0, delay |-> 0, firstError |-> NoRawError,
   lastError |-> NoRawError, raised |-> NoRawError]

IdleFrame == [RetryFrame("shared", DEFAULT_RETRY_OPTIONS, "") EXCEPT !.pc = "idle"]

RetryInit ==
  rw \in { RetryFrame("shared", c, "") : c \in RetryConfigs }
         \cup { RetryFrame("service", DEFAULT_RETRY_OPTIONS, o) : o \in ServiceOps }

Failed(frame, e) ==
  [frame EXCEPT !.calls = @ + 1, !.lastError = e,
                !.firstError = IF frame.calls = 0 THEN e ELSE @]

\* retry.ts withRetry: `return await operation()` succeeds
WithRetryReturns ==
  /\ rw.pc = "call" /\ rw.impl = "shared"
  /\ rw' = [rw EXCEPT !.calls = @ + 1, !.pc = "returned"]
  /\ UNCHANGED <<svc, contrib, storeVars, mutVars>>

\* Bound on the loop of retry.ts withRetry: `attempt <= config.maxRetries`
IsLastAttemptOff(attempt, config) == attempt = config.maxRetries - 1
IsLastAttempt(attempt, config) == attempt = config.maxRetries

\* retry.ts withRetry: operation() throws e; the catch block up to the throw or the wait
WithRetryCatches ==
  /\ rw.pc = "call" /\ rw.impl = "shared"
  /\ \E e \in RawErrors, r \in RandomDraws :
       IF IsLastAttempt(rw.attempt, rw.config) \/ ~shouldRetry(rw.config, e)
         THEN rw' = [Failed(rw, e) EXCEPT !.pc = "raised", !.raised = e]
         ELSE rw' = [Failed(rw, e) EXCEPT !.pc = "wait",
                       !.delay = calculateBackoffDelay(rw.attempt,
                                   rw.config.baseDelay, rw.config.maxDelay, r)]
  /\ UNCHANGED <<svc, contrib, storeVars, mutVars>>

\* retry.ts withRetry: the setTimeout fires, the loop goes to the next attempt
WithRetryResumes ==
  /\ rw.pc = "wait" /\ rw.impl = "shared"
  /\ rw' = [rw EXCEPT !.pc = "call", !.attempt = @ + 1, !.waits = @ + 1,
                      !.delay = 0]
  /\ UNCHANGED <<svc, contrib, storeVars, mutVars>>

\* Entity Service operation: the operation inside the service's withRetry succeeds
ServiceReturns ==
  /\ rw.pc = "call" /\ rw.impl = "service"
  /\ rw' = [rw EXCEPT !.calls = @ + 1, !.pc = "returned"]
  /\ UNCHANGED <<svc, contrib, storeVars, mutVars>>

\* The service's withRetry retries whatever the error is.
ServiceRetries(e) == TRUE

\* Entity Service operation: the operation throws e; the service's withRetry
\* rethrows on the last round (and handleError wraps the error) or waits
ServiceCatches ==
  /\ rw.pc = "call" /\ rw.impl = "service"
  /\ \E e \in RawErrors :
       IF rw.attempt = ServiceMaxRetries - 1 \/ ~ServiceRetries(e)
         THEN rw' = [Failed(rw, e) EXCEPT !.pc = "raised",
                                          !.raised = handleError(e, rw.op)]
         ELSE rw' = [Failed(rw, e) EXCEPT !.pc = "wait",
                       !.delay = ServiceBaseDelay * 2^rw.attempt]
  /\ UNCHANGED <<svc, contrib, storeVars, mutVars>>

\* Entity Service operation: the setTimeout fires, next round of the loop
ServiceResumes ==
  /\ rw.pc = "wait" /\ rw.impl = "service"
  /\ rw' = [rw EXCEPT !.pc = "call", !.attempt = @ + 1, !.waits = @ + 1,
                      !.delay = 0]
  /\ UNCHANGED <<svc, contrib, storeVars, mutVars>>

RetryNext ==
  \/ WithRetryReturns
  \/ WithRetryCatches
  \/ WithRetryResumes
  \/ ServiceReturns
  \/ ServiceCatches
  \/ ServiceResumes

(***************************************************************************)
(* createTransaction and deleteTransaction of the transactions service     *)
(* (lib/supabase/services/transactions.ts): the primary insert or delete,  *)
(* the read and the write of the linked category's running total, inside   *)
(* the service's own withRetry                                             *)
(***************************************************************************)

\* Amounts in cents a transaction is created or deleted with.
TxAmounts == {100, 4525}
\* Running totals in cents the linked category starts with or is set to by
\* another session.
CategoryTotals == {0, 50, 20000}
\* Changes another session makes to the category while the call runs.
MaxOtherWrites == 1

\* What the remote store answers when a request of the call fails.
TxErrors ==
  { MkError("TypeError", "", "", "", "Failed to fetch", FALSE),
    MkError("Object", "", "23503", "",
            "insert or update violates foreign key constraint", TRUE) }

\* A call: op and its arguments (amount, whether category_id is set), the
\* position pc, the loop index i of withRetry, the rows of the remote store
\* (stored: the transaction row exists; value: the category's total), the
\* local `category.value`, and counters of what has happened so far.
TxCall(op, amount, linked, value) ==
  [op |-> op, pc |-> IF op = "delete" THEN "fetch" ELSE "primary", i |-> 0,
   amount |-> amount, linked |-> linked, stored |-> (op = "delete"),
   value |-> value, read |-> 0, primaryWrites |-> 0, categoryWrites |-> 0,
   logged |-> 0, others |-> 0, raised |-> NoRawError]

IdleService == [TxCall("create", 0, FALSE, 0) EXCEPT !.pc = "idle"]

TxServiceInit ==
  svc \in { TxCall(op, a, l, v) : op \in {"create", "delete"}, a \in TxAmounts,
                                   l \in BOOLEAN, v \in CategoryTotals }

\* deleteTransaction: the select of the transaction row answers without error
TxFetchSucceeds ==
  /\ svc.pc = "fetch"
  /\ svc' = [svc EXCEPT !.pc = "primary"]
  /\ UNCHANGED <<rw, contrib, storeVars, mutVars>>

\* The insert (createTransaction) or the delete (deleteTransaction) answers
\* without error
TxPrimarySucceeds ==
  /\ svc.pc = "primary"
  /\ svc' = [svc EXCEPT !.stored = (svc.op = "create"),
                        !.primaryWrites = @ + 1,
                        !.pc = IF svc.linked THEN "catRead" ELSE "returned"]
  /\ UNCHANGED <<rw, contrib, storeVars, mutVars>>

\* `if (fetchError) throw fetchError`, `if (transactionError) throw ...`,
\* `if (deleteError) throw deleteError`: caught by the service's withRetry
TxPrimaryFails ==
  /\ svc.pc \in {"fetch", "primary"}
  /\ \E e \in TxErrors :
       svc' = IF svc.i = ServiceMaxRetries - 1
                THEN [svc EXCEPT !.pc = "raised",
                        !.raised = handleError(e, svc.op \o " transaction")]
                ELSE [svc EXCEPT !.pc = "wait"]
  /\ UNCHANGED <<rw, contrib, storeVars, mutVars>>

\* withRetry: the setTimeout fires, the loop runs the operation again
TxRetryResumes ==
  /\ svc.pc = "wait"
  /\ svc' = [svc EXCEPT !.i = @ + 1,
                        !.pc = IF svc.op = "delete" THEN "fetch" ELSE "primary"]
  /\ UNCHANGED <<rw, contrib, storeVars, mutVars>>

\* The select of spending_categories.value answers without error
TxCategoryReadSucceeds ==
  /\ svc.pc = "catRead"
  /\ svc' = [svc EXCEPT !.read = svc.value, !.pc = "catWrite"]
  /\ UNCHANGED <<rw, contrib, storeVars, mutVars>>

\* newValue of createTransaction and of deleteTransaction
NewValueUnfloored(op, value, amount) ==
  IF op = "create" THEN value + amount ELSE value - amount
NewValue(op, value, amount) ==
  IF op = "create" THEN value + amount ELSE Max(0, value - amount)

\* The update of spending_categories.value answers without error
TxCategoryWriteSucceeds ==
  /\ svc.pc = "catWrite"
  /\ svc' = [svc EXCEPT !.value = NewValue(svc.op, svc.read, svc.amount),
                        !.categoryWrites = @ + 1, !.pc = "returned"]
  /\ UNCHANGED <<rw, contrib, storeVars, mutVars>>

\* categoryFetchError or categoryUpdateError: logDatabaseError, nothing thrown
TxSecondaryFailsThrowing ==
  /\ svc.pc \in {"catRead", "catWrite"}
  /\ svc' = [svc EXCEPT !.logged = @ + 1,
                        !.pc = IF svc.i = ServiceMaxRetries - 1
                                 THEN "raised" ELSE "wait"]
  /\ UNCHANGED <<rw, contrib, storeVars, mutVars>>
TxSecondaryFails ==
  /\ svc.pc \in {"catRead", "catWrite"}
  /\ svc' = [svc EXCEPT !.logged = @ + 1, !.pc = "returned"]
  /\ UNCHANGED <<rw, contrib, storeVars, mutVars>>

\* Another session changes the category's total while the call is running
TxCategoryChangedElsewhere ==
  /\ svc.pc \in {"fetch", "primary", "catRead", "catWrite", "wait"}
  /\ svc.others < MaxOtherWrites
  /\ \E v \in CategoryTotals \ {svc.value} :
       svc' = [svc EXCEPT !.value = v, !.others = @ + 1]
  /\ UNCHANGED <<rw, contrib, storeVars, mutVars>>

\* The steps of the call itself.
TxServiceSteps ==
  \/ TxFetchSucceeds
  \/ TxPrimarySucceeds
  \/ TxPrimaryFails
  \/ TxRetryResumes
  \/ TxCategoryReadSucceeds
  \/ TxCategoryWriteSucceeds
  \/ TxSecondaryFails

TxServiceNext ==
  \/ TxFetchSucceeds
  \/ TxPrimarySucceeds
  \/ TxPrimaryFails
  \/ TxRetryResumes
  \/ TxCategoryReadSucceeds
  \/ TxCategoryWriteSucceeds
  \/ TxSecondaryFails
  \/ TxCategoryChangedElsewhere

(***************************************************************************)
(* addContribution of the goals service (lib/supabase/services/goals.ts):  *)
(* two calls on one goal, each a select of current_amount followed by an   *)
(* update, inside the service's own withRetry.  A request that fails has   *)
(* changed nothing in the remote store.                                    *)
(***************************************************************************)

\* The two callers (sessions) contributing to the goal.
Sessions == {"s1", "s2"}
\* current_amount of the goal before the calls, and the amounts contributed.
GoalAmounts == {0, 100}
Contributions == {10, 25}

\* One call: its position pc, the loop index i of withRetry, its amount, the
\* goal.current_amount it read last, and how many updates of the goal had
\* been applied when it read.
ContribCall(amount) ==
  [pc |-> "read", i |-> 0, amount |-> amount, read |-> 0, seen |-> 0]

\* The goal row (current) with the value it started from, the number of
\* updates applied to it, and the two calls.
ContribCalls(c, a, b) ==
  [current |-> c, start |-> c, writes |-> 0,
   sess |-> [s \in Sessions |->
               IF s = "s1" THEN ContribCall(a) ELSE ContribCall(b)]]

IdleContrib ==
  [ContribCalls(0, 0, 0) EXCEPT
     !.sess = [s \in Sessions |-> [ContribCall(0) EXCEPT !.pc = "idle"]]]

ContribInit ==
  contrib \in { ContribCalls(c, a, b) :
                  c \in GoalAmounts, a \in Contributions, b \in Contributions }

\* The select of current_amount answers with the goal's row
ContribReadSucceedsFor(s) ==
  /\ contrib.sess[s].pc = "read"
  /\ contrib' = [contrib EXCEPT !.sess[s].read = contrib.current,
                                !.sess[s].seen = contrib.writes,
                                !.sess[s].pc = "write"]
  /\ UNCHANGED <<rw, svc, storeVars, mutVars>>

ContribReadSucceeds == \E s \in Sessions : ContribReadSucceedsFor(s)

\* newAmount = (goal.current_amount || 0) + amount; the update answers
\* without error
ContribWriteAtomicFor(s) ==
  /\ contrib.sess[s].pc = "write"
  /\ contrib' = [contrib EXCEPT
                   !.current = contrib.current + contrib.sess[s].amount,
                   !.writes = @ + 1,
                   !.sess[s].pc = "returned"]
  /\ UNCHANGED <<rw, svc, storeVars, mutVars>>
ContribWriteSucceedsFor(s) ==
  /\ contrib.sess[s].pc = "write"
  /\ contrib' = [contrib EXCEPT
                   !.current = contrib.sess[s].read + contrib.sess[s].amount,
                   !.writes = @ + 1,
                   !.sess[s].pc = "returned"]
  /\ UNCHANGED <<rw, svc, storeVars, mutVars>>

ContribWriteSucceeds == \E s \in Sessions : ContribWriteSucceedsFor(s)

\* `if (fetchError) throw fetchError`, `if (error) throw error`: caught by
\* the service's withRetry; the last attempt's error goes to handleError
ContribFailsFor(s) ==
  /\ contrib.sess[s].pc \in {"read", "write"}
  /\ contrib' = [contrib EXCEPT
                   !.sess[s].pc = IF contrib.sess[s].i = ServiceMaxRetries - 1
                                    THEN "raised" ELSE "wait"]
  /\ UNCHANGED <<rw, svc, storeVars, mutVars>>

ContribFails == \E s \in Sessions : ContribFailsFor(s)

\* withRetry: the setTimeout fires, the loop runs the operation again
ContribRetryResumesFor(s) ==
  /\ contrib.sess[s].pc = "wait"
  /\ contrib' = [contrib EXCEPT !.sess[s].i = @ + 1, !.sess[s].pc = "read"]
  /\ UNCHANGED <<rw, svc, storeVars, mutVars>>

ContribRetryResumes == \E s \in Sessions : ContribRetryResumesFor(s)

ContribNext ==
  \/ ContribReadSucceeds
  \/ ContribWriteSucceeds
  \/ ContribFails
  \/ ContribRetryResumes

(***************************************************************************)
(* Remote store, Local Cache and the Sync Store hooks                      *)
(* (hooks/useGoals.ts, useCategories.ts, useTransactions.ts,               *)
(* useChatHistory.ts and the list/subscribe functions of the services)     *)
(***************************************************************************)

\* Rows one owner can have in the remote store through RemoteInsert.
MaxRows == 1
\* List calls of one hook that can be unresolved at the same time.
MaxInFlight == 2
\* Stand-in for the page size shared by useTransactions(limit = 50) and
\* getTransactions(userId, limit = 50).
Limit == 1
\* loadMore is explored while offset and the shown rows are below MaxLoads pages.
MaxLoads == 2
\* Number of leading FIXED_CATEGORIES names the model keeps.
NumFixed == 1

NoUser  == "none"
Users   == {"A", "B"}
\* Owners whose rows other sessions change while the hook runs.
Writers == {"A"}
NoError == [pre |-> "", text |-> "null"]
\* A localStorage entry: absent, unparsable, or the JSON of a Collection.
NoEntry == [state |-> "absent", rows |-> <<>>]
Corrupt == [state |-> "unparsable", rows |-> <<>>]
Entry(rows) == [state |-> "ok", rows |-> rows]

EntityTypes == {"goals", "categories", "transactions", "chat"}

AllFixedCategories ==
  <<"Food and Groceries", "Shopping", "Housing", "Transportation",
    "Debt Payments", "Entertainment", "Utilities", "Healthcare", "Personal",
    "Insurance">>

FIXED_CATEGORIES == SubSeq(AllFixedCategories, 1, Min(NumFixed, 10))

FixedNames == { FIXED_CATEGORIES[i] : i \in 1..Len(FIXED_CATEGORIES) }

\* Names a row inserted into the remote store can have.
RowNames(t) == IF t = "categories" THEN FixedNames \cup {"Custom"} ELSE {"row"}

\* A row of the remote store; ids are assigned by the remote store.
Row(id, owner, name) == [id |-> id, owner |-> owner, name |-> name]

Reverse(s) == [i \in 1..Len(s) |-> s[Len(s) + 1 - i]]

Names(s) == { s[i].name : i \in 1..Len(s) }

\* getTransactions: .order('created_at', descending).range(offset, offset + limit - 1)
getTransactions(rows, limit, off) ==
  SubSeq(Reverse(rows), off + 1, Min(off + limit, Len(rows)))

\* limit default of getMessages
ChatLimit == 100

\* What the list operation of the Entity Service returns for the rows of one owner.
ListResult(t, rows, off) ==
  CASE t = "transactions" -> getTransactions(rows, Limit, off)
    [] t = "chat"         -> SubSeq(rows, 1, Min(ChatLimit, Len(rows)))
    [] OTHER              -> rows

\* Array.prototype.sort with the comparator of fetchCategories (stable):
\* fixed categories first, in FIXED_CATEGORIES order, the others in their order.
RECURSIVE FixedInOrder(_, _)
FixedInOrder(s, i) ==
  IF i > Len(FIXED_CATEGORIES) THEN <<>>
  ELSE SelectSeq(s, LAMBDA r : r.name = FIXED_CATEGORIES[i]) \o FixedInOrder(s, i + 1)

SortedCategories(s) ==
  FixedInOrder(s, 1) \o SelectSeq(s, LAMBDA r : r.name \notin FixedNames)

\* FIXED_CATEGORIES.filter(name => !existingCategoryNames.has(name))
MissingCategories(data) ==
  SelectSeq(FIXED_CATEGORIES, LAMBDA n : n \notin Names(data))

\* The rows createCategory returns for the names of `missing`, appended to `rows`.
CreatedRows(owner, rows, missing) ==
  [i \in 1..Len(missing) |-> Row(Len(rows) + i, owner, missing[i])]

\* Errors a failing list or create call raises towards the hook (after handleError).
StoreErrors ==
  { handleError(e, "list") :
      e \in { MkError("TypeError", "", "", "", "Failed to fetch", FALSE),
              MkError("Object", "", "23505", "",
                      "duplicate key value violates unique constraint", TRUE) } }

\* err instanceof Error ? err.message : fallback
ErrMessage(e) == [pre |-> e.pre, text |-> e.text]

ListCall(id, owner, src, off) ==
  [id |-> id, owner |-> owner, src |-> src, offset |-> off, orphan |-> FALSE,
   phase |-> "list", data |-> <<>>, stale |-> FALSE]

\* localStorage.getItem + JSON.parse of the hydration effect
Hydrated(entry, current) ==
  IF entry.state = "ok" THEN entry.rows ELSE current

StoreIdle ==
  /\ etype = "goals" /\ user = NoUser /\ mounted = "initial" /\ coll = <<>>
  /\ loading = TRUE /\ error = NoError /\ offset = 0 /\ hasMore = TRUE
  /\ cache = [u \in Users |-> NoEntry] /\ remote = [u \in Users |-> <<>>]
  /\ calls = {} /\ channel = NoUser

\* Before the hook's component mounts: useState initial values, whatever the
\* remote store and localStorage hold from earlier sessions.
StoreInit ==
  /\ etype \in EntityTypes
  /\ user \in Users \cup {NoUser}
  /\ mounted = "initial"
  /\ coll = <<>> /\ loading = TRUE /\ error = NoError
  /\ offset = 0 /\ hasMore = TRUE
  /\ remote \in [Users -> { <<>> }]
  /\ cache = [u \in Users |-> IF u = "A" THEN NoEntry ELSE Corrupt]
  /\ calls = {} /\ channel = NoUser

Live(c) == ~c.orphan

CanIssue == Cardinality(calls) < MaxInFlight

\* Identity of the next list call (the promise) among the unresolved ones:
\* the unresolved calls are numbered in the order they were issued.
FreshId == Cardinality(calls) + 1

\* The calls still unresolved once c has resolved, numbered in issue order.
Remaining(c) ==
  { [d EXCEPT !.id = IF d.id > c.id THEN d.id - 1 ELSE d.id] : d \in calls \ {c} }

\* The same once the continuation of c has applied what its list returned:
\* stale marks the calls of the same owner issued before c, whose result now
\* comes after that of a list issued later.
RemainingApplied(c) ==
  { [d EXCEPT !.stale = @ \/ (d.id < c.id /\ d.owner = c.owner
                                 /\ c.src # "more")] :
      d \in Remaining(c) }

\* The realtime channel the subscription effect opens for owner u.
Subscribed(u) == IF etype = "chat" THEN NoUser ELSE u

\* Mount: the three effects of the hook run for the current user
\* (hydrate from the cache, fetch, subscribe).
Mount ==
  /\ mounted = "initial"
  /\ user # NoUser => CanIssue
  /\ mounted' = "mounted"
  /\ offset' = 0 /\ hasMore' = TRUE /\ error' = NoError
  /\ IF user = NoUser
       THEN /\ coll' = <<>> /\ loading' = FALSE
            /\ UNCHANGED calls
       ELSE /\ coll' = Hydrated(cache[user], <<>>)
            /\ loading' = TRUE
            /\ calls' = calls \cup {ListCall(FreshId, user, "fetch", 0)}
  /\ channel' = Subscribed(user)
  /\ UNCHANGED <<etype, user, cache, remote>>
  /\ UNCHANGED <<retryVars, mutVars>>

\* Unmount: the subscription effect's cleanup removes the channel; the
\* component's state setters no longer have any effect.
Unmount ==
  /\ mounted = "mounted"
  /\ mounted' = "unmounted"
  /\ channel' = NoUser
  /\ calls' = { [c EXCEPT !.orphan = TRUE] : c \in calls }
  /\ UNCHANGED <<etype, user, coll, loading, error, offset, hasMore, cache,
                 remote>>
  /\ UNCHANGED <<retryVars, mutVars>>

\* useUser() yields another user id (or none) while the hook is mounted: the
\* effects that depend on user?.id run again (cleanup, hydrate, fetch, subscribe).
OwnerChange ==
  /\ mounted = "mounted"
  /\ \E u \in (Users \cup {NoUser}) \ {user} :
       /\ u # NoUser => CanIssue
       /\ user' = u
       /\ IF u = NoUser
            THEN /\ loading' = FALSE
                 /\ UNCHANGED <<coll, error, calls>>
            ELSE /\ coll' = Hydrated(cache[u], coll)
                 /\ error' = NoError
                 /\ calls' = calls \cup {ListCall(FreshId, u, "fetch", 0)}
                 /\ UNCHANGED loading
       /\ channel' = Subscribed(u)
  /\ UNCHANGED <<etype, mounted, offset, hasMore, cache, remote>>
  /\ UNCHANGED <<retryVars, mutVars>>

\* refetch(): fetchGoals / fetchCategories / fetchMessages, or for
\* transactions setOffset(0) and fetchTransactions(true)
Refetch ==
  /\ mounted = "mounted"
  /\ IF user = NoUser
       THEN /\ loading' = FALSE
            /\ UNCHANGED <<error, calls>>
       ELSE /\ CanIssue
            /\ error' = NoError
            /\ calls' = calls \cup {ListCall(FreshId, user, "fetch", 0)}
            /\ UNCHANGED loading
  /\ offset' = IF etype = "transactions" THEN 0 ELSE offset
  /\ UNCHANGED <<etype, user, mounted, coll, hasMore, cache, remote, channel>>
  /\ UNCHANGED <<retryVars, mutVars>>

\* useTransactions.loadMore: setOffset(prev => prev + limit), then
\* fetchTransactions(false), whose closure still holds the offset of the
\* last render
LoadMore ==
  /\ mounted = "mounted" /\ etype = "transactions"
  /\ hasMore /\ ~loading
  /\ offset < MaxLoads * Limit /\ Len(coll) < MaxLoads * Limit
  /\ offset' = offset + Limit
  /\ IF user = NoUser
       THEN /\ loading' = FALSE
            /\ UNCHANGED <<error, calls>>
       ELSE /\ CanIssue
            /\ error' = NoError
            /\ calls' = calls \cup {ListCall(FreshId, user, "more", offset)}
            /\ UNCHANGED loading
  /\ UNCHANGED <<etype, user, mounted, coll, hasMore, cache, remote, channel>>
  /\ UNCHANGED <<retryVars, mutVars>>

\* A ChangeEvent reaches the channel: the handler registered by
\* subscribeToGoals / subscribeToCategories / subscribeToTransactions
\* starts its list call
ChangeEvent ==
  /\ channel # NoUser
  /\ CanIssue
  /\ calls' = calls \cup {ListCall(FreshId, channel, "event", 0)}
  /\ UNCHANGED <<etype, user, mounted, coll, loading, error, offset, hasMore,
                 cache, remote, channel>>
  /\ UNCHANGED <<retryVars, mutVars>>

\* Another session or device inserts a row for owner u.
RemoteInsert ==
  /\ \E u \in Writers, n \in RowNames(etype) :
       /\ Len(remote[u]) < MaxRows
       /\ n \notin Names(remote[u]) \ {"row"}
       /\ remote' = [remote EXCEPT ![u] = Append(@, Row(Len(@) + 1, u, n))]
  /\ UNCHANGED <<etype, user, mounted, coll, loading, error, offset, hasMore,
                 cache, calls, channel>>
  /\ UNCHANGED <<retryVars, mutVars>>

\* A state setter called by the continuation of call c: without effect once
\* the component that issued c has unmounted.
SetState(c, new, old) == IF Live(c) THEN new ELSE old

\* The owner key under which the continuation of call c writes localStorage.
CacheOwnerCurrent(c) == IF user = NoUser THEN c.owner ELSE user
CacheOwner(c) == c.owner

\* The reset argument of fetchTransactions: false only for loadMore.
Reset(src) == src # "more"

\* The callback the hook passed to subscribeTo...: applied to what the
\* handler's list call returned
EventCallback(c, data) ==
  /\ coll' = SetState(c, data, coll)
  /\ offset' = IF etype = "transactions" THEN SetState(c, 0, offset) ELSE offset
  /\ hasMore' = IF etype = "transactions"
                  THEN SetState(c, Len(data) = Limit, hasMore) ELSE hasMore
  /\ cache' = [cache EXCEPT ![CacheOwner(c)] = Entry(data)]
  /\ calls' = RemainingApplied(c)
  /\ UNCHANGED <<loading, error, remote>>

\* fetchGoals / fetchMessages after `await getGoals(...)` returned data
FetchedPlain(c, data) ==
  /\ coll' = SetState(c, data, coll)
  /\ cache' = [cache EXCEPT ![CacheOwner(c)] = Entry(data)]
  /\ loading' = SetState(c, FALSE, loading)
  /\ calls' = RemainingApplied(c)
  /\ UNCHANGED <<error, offset, hasMore, remote>>

\* fetchTransactions(reset) after `await getTransactions(...)` returned data
FetchedTransactions(c, data) ==
  /\ IF Reset(c.src)
       THEN /\ coll' = SetState(c, data, coll)
            /\ offset' = SetState(c, 0, offset)
            /\ cache' = [cache EXCEPT ![CacheOwner(c)] = Entry(data)]
       ELSE /\ coll' = SetState(c, coll \o data, coll)
            /\ UNCHANGED <<offset, cache>>
  /\ hasMore' = SetState(c, Len(data) = Limit, hasMore)
  /\ loading' = SetState(c, FALSE, loading)
  /\ calls' = RemainingApplied(c)
  /\ UNCHANGED <<error, remote>>

\* fetchCategories from the sort to the finally block: `all` is the fetched
\* data followed by the categories created for the missing fixed names
FetchedCategories(c, data, created) ==
  LET sortedCategories == SortedCategories(data \o created)
  IN  /\ coll' = SetState(c, sortedCategories, coll)
      /\ cache' = [cache EXCEPT ![CacheOwner(c)] = Entry(sortedCategories)]
      /\ loading' = SetState(c, FALSE, loading)
      /\ calls' = RemainingApplied(c)
      /\ UNCHANGED <<error, offset, hasMore>>

\* The list call of c resolves with the rows the remote store holds.
ListSucceedsFor(c) ==
  /\ c \in calls /\ c.phase = "list"
  /\ LET data == ListResult(etype, remote[c.owner], c.offset)
     IN  IF c.src = "event" THEN EventCallback(c, data)
         ELSE IF etype = "transactions" THEN FetchedTransactions(c, data)
         ELSE IF etype = "categories" THEN
           IF MissingCategories(data) # <<>>
             THEN /\ calls' = (calls \ {c}) \cup
                                {[c EXCEPT !.phase = "create", !.data = data]}
                  /\ UNCHANGED <<coll, loading, error, offset, hasMore,
                                 cache, remote>>
             ELSE FetchedCategories(c, data, <<>>) /\ UNCHANGED remote
         ELSE FetchedPlain(c, data)
  /\ UNCHANGED <<etype, user, mounted, channel>>
  /\ UNCHANGED <<retryVars, mutVars>>

ListSucceeds == \E c \in calls : ListSucceedsFor(c)

\* fetchCategories: every createCategory of the Promise.all resolves
CreateMissingSucceedsFor(c) ==
  /\ c \in calls /\ c.phase = "create"
  /\ LET created == CreatedRows(c.owner, remote[c.owner],
                                MissingCategories(c.data))
     IN  /\ remote' = [remote EXCEPT ![c.owner] = @ \o created]
         /\ FetchedCategories(c, c.data, created)
  /\ UNCHANGED <<etype, user, mounted, channel>>
  /\ UNCHANGED <<retryVars, mutVars>>

CreateMissingSucceeds == \E c \in calls : CreateMissingSucceedsFor(c)

\* fetchCategories: one createCategory of the Promise.all rejects; the
\* creations before it in FIXED_CATEGORIES order may have reached the store
CreateMissingFailsFor(c) ==
  /\ c \in calls /\ c.phase = "create"
  /\ \E e \in StoreErrors :
       /\ error' = SetState(c, ErrMessage(e), error)
       /\ loading' = SetState(c, FALSE, loading)
  /\ \E k \in 0..(Len(MissingCategories(c.data)) - 1) :
       remote' = [remote EXCEPT ![c.owner] =
                    @ \o CreatedRows(c.owner, @,
                           SubSeq(MissingCategories(c.data), 1, k))]
  /\ calls' = Remaining(c)
  /\ UNCHANGED <<coll, offset, hasMore, cache>>
  /\ UNCHANGED <<etype, user, mounted, channel>>
  /\ UNCHANGED <<retryVars, mutVars>>

CreateMissingFails == \E c \in calls : CreateMissingFailsFor(c)

\* Whether the failure of a list of kind src reaches the hook's catch block
\* (setError); the subscription handler only logs it.
ReportsFailureAlways(src) == TRUE
ReportsFailure(src) == src # "event"

\* The list call of c rejects (the service's retries are used up).
ListFailsFor(c) ==
  /\ c \in calls /\ c.phase = "list"
  /\ IF ReportsFailure(c.src)
       THEN /\ \E e \in StoreErrors : error' = SetState(c, ErrMessage(e), error)
            /\ loading' = SetState(c, FALSE, loading)
       ELSE UNCHANGED <<error, loading>>
  /\ calls' = Remaining(c)
  /\ UNCHANGED <<etype, user, mounted, coll, offset, hasMore, cache, remote,
                 channel>>
  /\ UNCHANGED <<retryVars, mutVars>>

ListFails == \E c \in calls : ListFailsFor(c)

StoreNext ==
  \/ Mount
  \/ Unmount
  \/ OwnerChange
  \/ Refetch
  \/ LoadMore
  \/ ChangeEvent
  \/ RemoteInsert
  \/ ListSucceeds
  \/ CreateMissingSucceeds
  \/ CreateMissingFails
  \/ ListFails

(***************************************************************************)
(* Connectivity Monitor, mutation hooks and the optimistic views           *)
(* (useAddTransaction, useDeleteTransaction, useAddGoal, useUpdateGoal,    *)
(* useUpdateCategory, useAddChatMessage, useChatHistory.clearMessages,     *)
(* the Goals component and AppProvider)                                    *)
(***************************************************************************)

\* Largest amount or field value a mutation is invoked with.
MaxAmount == 1
\* Mutations whose remote call can be unresolved at the same time.
MaxPending == 2
\* Mutations started in one run.
MaxMutations == 2
\* Milliseconds the clock advances in one run.
MaxNow == 1

Amounts == 1..MaxAmount

\* A field of a Partial<...>: absent (undefined) or a value.
Undefined == [has |-> FALSE, val |-> 0]
Some(v) == [has |-> TRUE, val |-> v]

\* { ...entity, ...updates } for one field
Spread(old, field) == IF field.has THEN field.val ELSE old

Goal(id, current, target) ==
  [id |-> id, current_amount |-> current, target_amount |-> target]

GoalUpdates(current, target) == [current_amount |-> current, target_amount |-> target]

Category(id, value, budget) == [id |-> id, value |-> value, budget |-> budget]

CategoryUpdates(value, budget) == [value |-> value, budget |-> budget]

\* Partial updates the field-update mutations are invoked with (never empty).
PartialGoals ==
  { GoalUpdates(c, t) : c \in {Undefined} \cup { Some(v) : v \in Amounts },
                        t \in {Undefined} \cup { Some(v) : v \in Amounts } }
  \ { GoalUpdates(Undefined, Undefined) }

PartialCategories ==
  { CategoryUpdates(v, b) : v \in {Undefined} \cup { Some(x) : x \in Amounts },
                            b \in {Undefined} \cup { Some(x) : x \in Amounts } }
  \ { CategoryUpdates(Undefined, Undefined) }

Ids(s) == { s[i].id : i \in 1..Len(s) }

Find(s, id) == s[CHOOSE i \in 1..Len(s) : s[i].id = id]

\* Goals component, handleOptimisticUpdate
handleOptimisticUpdate(prev, db, goalId, updates) ==
  LET merge(g) == Goal(g.id, Spread(g.current_amount, updates.current_amount),
                       Spread(g.target_amount, updates.target_amount))
  IN  IF goalId \in Ids(prev)
        THEN [i \in 1..Len(prev) |->
                IF prev[i].id = goalId THEN merge(prev[i]) ELSE prev[i]]
      ELSE IF goalId \in Ids(db) THEN Append(prev, merge(Find(db, goalId)))
      ELSE prev

\* Goals component, handleRollback
handleRollback(prev, goalId, previousData) ==
  IF goalId \in Ids(prev) /\ previousData.current_amount.has
    THEN [i \in 1..Len(prev) |->
            IF prev[i].id = goalId
              THEN [prev[i] EXCEPT !.current_amount =
                                      @ - previousData.current_amount.val]
              ELSE prev[i]]
    ELSE SelectSeq(prev, LAMBDA g : g.id # goalId)

\* Goals component: merge of optimistic and real goals
MergedGoals(db, optimistic) ==
  [i \in 1..Len(db) |->
     IF db[i].id \in Ids(optimistic) THEN Find(optimistic, db[i].id) ELSE db[i]]

\* OPTIMISTIC_UPDATES.md, usage of useUpdateCategory: handleOptimisticUpdate
\* and handleRollback are the same map
categoryPatch(prev, id, updates) ==
  [i \in 1..Len(prev) |->
     IF prev[i].id = id
       THEN Category(id, Spread(prev[i].value, updates.value),
                     Spread(prev[i].budget, updates.budget))
       ELSE prev[i]]

\* AppProvider, handleOptimisticAdd
handleOptimisticAdd(prev, transaction) == <<transaction>> \o prev

\* AppProvider, handleRollback (transactions)
handleRollbackAdd(prev, transactionId) ==
  SelectSeq(prev, LAMBDA t : t.id # transactionId)

\* Descriptions an expense is recorded with.
Descriptions == {"coffee", "tea"}

\* The argument of addTransaction (the fields the merged view looks at).
NewTransaction(description, amount) ==
  [description |-> description, amount |-> amount]

\* id: `temp-${Date.now()}`
OptimisticTransaction(description, amount, t) ==
  [id |-> "temp-" \o ToString(t), description |-> description, amount |-> amount]

\* The row createTransaction inserts; the remote store gives it a durable id.
PersistedTransaction(rows, data) ==
  [id |-> "tx-" \o ToString(Len(rows) + 1), description |-> data.description,
   amount |-> data.amount]

\* `t.description + t.amount`: string concatenation with the number
MatchKey(t) == t.description \o ToString(t.amount)

\* AppProvider: merge of optimistic and real transactions
MergedTransactionsUnfiltered(db, optimistic) == optimistic \o db
MergedTransactions(db, optimistic) ==
  LET persistedIds == { MatchKey(db[i]) : i \in 1..Len(db) }
      validOptimistic ==
        SelectSeq(optimistic, LAMBDA t : MatchKey(t) \notin persistedIds)
  IN  validOptimistic \o db

\* AppProvider.addExpense: the callback of setTimeout(..., 1000)
ClearOptimisticNothing(prev, expense) == prev
ClearOptimistic(prev, expense) ==
  SelectSeq(prev, LAMBDA t : t.description # expense.description
                             \/ t.amount # expense.amount)

\* The error a failing Entity Service call raises towards a mutation hook.
MutationErrors ==
  { handleError(MkError("TypeError", "", "", "", "Failed to fetch", FALSE),
                "mutate") }

MutationKinds ==
  {"addTransaction", "deleteTransaction", "addGoal", "updateGoal",
   "addContribution", "updateCategory", "addMessage", "clearMessages"}

\* The hook whose busy flag and error a mutation sets.
HookOf(kind) ==
  CASE kind = "addTransaction"    -> "useAddTransaction"
    [] kind = "deleteTransaction" -> "useDeleteTransaction"
    [] kind = "addGoal"           -> "useAddGoal"
    [] kind = "updateGoal"        -> "useUpdateGoal"
    [] kind = "addContribution"   -> "useUpdateGoal"
    [] kind = "updateCategory"    -> "useUpdateCategory"
    [] kind = "addMessage"        -> "useAddChatMessage"
    [] kind = "clearMessages"     -> "useChatHistory"

\* clearMessages has no busy flag and reports into the error state of useChatHistory.
HookNames == { HookOf(k) : k \in MutationKinds \ {"clearMessages"} }

\* Whether the entry point tests navigator.onLine before it does anything.
ChecksOnline(kind) == kind \notin {"deleteTransaction", "updateGoal"}

\* A started mutation: `id` tells unresolved calls apart, `target` is the
\* entity id, `updates` the argument, `rollback` the data kept for
\* onRollback, `before` the visible Collection when the entry point was called.
Mutation(id, kind, target, updates, rollback, before) ==
  [id |-> id, kind |-> kind, target |-> target, updates |-> updates,
   rollback |-> rollback, before |-> before]

NoUpdates == GoalUpdates(Undefined, Undefined)

CanStart == Cardinality(pending) < MaxPending /\ remoteCalls < MaxMutations

FreshMutId == CHOOSE i \in 1..MaxPending : \A m \in pending : m.id # i

\* setAdding(true) / setUpdating(true) / setDeleting(true); setError(null)
Busy(h, kind) ==
  IF kind = "clearMessages" THEN h
  ELSE [h EXCEPT ![HookOf(kind)] = [busy |-> TRUE, error |-> NoError]]

\* catch: setError(err.message); finally: setAdding(false) ...
Settled(h, kind, err) ==
  IF kind = "clearMessages" THEN h
  ELSE [h EXCEPT ![HookOf(kind)] = [busy |-> FALSE, error |-> err]]

MutIdle ==
  /\ online = TRUE /\ now = 0 /\ cats = <<>> /\ srvGoals = <<>>
  /\ dbGoals = <<>> /\ optimisticGoals = <<>> /\ optimisticTransactions = <<>>
  /\ hooks = [h \in HookNames |-> [busy |-> FALSE, error |-> NoError]]
  /\ pending = {} /\ remoteCalls = 0 /\ patches = 0
  /\ lastMut = "none"
  /\ srvTransactions = <<>> /\ dbTransactions = <<>> /\ timers = {}
  /\ localCache = [goals |-> <<>>, transactions |-> <<>>]

\* A signed-in user looking at goals and categories the stores have loaded.
MutInit ==
  /\ online = TRUE /\ now = 0
  /\ \E k \in 0..MaxAmount :
       /\ cats = <<Category("c1", k, MaxAmount), Category("c2", 0, 1)>>
       /\ srvGoals = <<Goal("g1", k, MaxAmount), Goal("g2", 0, 1)>>
  /\ dbGoals = srvGoals
  /\ optimisticGoals = <<>> /\ optimisticTransactions = <<>>
  /\ hooks = [h \in HookNames |-> [busy |-> FALSE, error |-> NoError]]
  /\ pending = {} /\ remoteCalls = 0 /\ patches = 0
  /\ lastMut = "none"
  /\ srvTransactions = <<>> /\ dbTransactions = <<>> /\ timers = {}
  /\ localCache = [goals |-> srvGoals, transactions |-> <<>>]

\* The chat Sync Store of the signed-in user, loaded and cached.
MutStoreInit ==
  /\ etype = "chat" /\ user = "A" /\ mounted = "mounted"
  /\ coll = <<Row(1, "A", "row")>>
  /\ loading = FALSE /\ error = NoError /\ offset = 0 /\ hasMore = TRUE
  /\ cache = [u \in Users |-> IF u = "A" THEN Entry(coll) ELSE NoEntry]
  /\ remote = [u \in Users |-> IF u = "A" THEN coll ELSE <<>>]
  /\ calls = {} /\ channel = NoUser

chatVars  == <<coll, cache, remote, error>>
otherStoreVars == <<etype, user, mounted, loading, offset, hasMore, calls, channel>>
viewVars  == <<cats, optimisticGoals, optimisticTransactions>>

\* The entry point throws 'You are offline. ...' before it changes anything.
RejectOffline(kind) ==
  /\ lastMut' = "offline"
  /\ UNCHANGED <<online, now, cats, srvGoals, dbGoals, optimisticGoals,
                 optimisticTransactions, hooks, pending, remoteCalls, patches>>
  /\ UNCHANGED <<retryVars, storeVars, txVars>>

\* Up to the await of the Entity Service call: busy flag, error reset, the
\* call itself (each optimistic callback is written by the entry point)
StartCall(kind, target, updates, rollback, before) ==
  /\ CanStart
  /\ pending' = pending \cup
                  {Mutation(FreshMutId, kind, target, updates, rollback, before)}
  /\ remoteCalls' = remoteCalls + 1
  /\ hooks' = Busy(hooks, kind)
  /\ lastMut' = "started"
  /\ UNCHANGED <<online, now, srvGoals, dbGoals, txVars>>
  /\ UNCHANGED <<retryVars, otherStoreVars, coll, cache, remote>>

\* useAddTransaction.addTransaction
AddTransaction ==
  \E description \in Descriptions, amount \in Amounts :
    IF ChecksOnline("addTransaction") /\ ~online
      THEN RejectOffline("addTransaction")
      ELSE LET t == OptimisticTransaction(description, amount, now)
           IN  /\ StartCall("addTransaction", t.id,
                            NewTransaction(description, amount), NoUpdates,
                            optimisticTransactions)
               /\ optimisticTransactions' =
                    handleOptimisticAdd(optimisticTransactions, t)
               /\ patches' = patches + 1
               /\ UNCHANGED <<cats, optimisticGoals, error>>

\* Entry points without an optimistic callback:
\* useDeleteTransaction.deleteTransactionMutation, useAddGoal.addGoal,
\* useAddChatMessage.addMessage
PlainMutation(kind) ==
  IF ChecksOnline(kind) /\ ~online
    THEN RejectOffline(kind)
    ELSE /\ StartCall(kind, "new", NoUpdates, NoUpdates, <<>>)
         /\ UNCHANGED <<viewVars, patches, error>>

DeleteTransaction == PlainMutation("deleteTransaction")

AddGoal == PlainMutation("addGoal")

AddMessage == PlainMutation("addMessage")

\* useChatHistory.clearMessages
ClearMessages ==
  IF ChecksOnline("clearMessages") /\ ~online
    THEN RejectOffline("clearMessages")
    ELSE /\ StartCall("clearMessages", user, NoUpdates, NoUpdates, <<>>)
         /\ error' = NoError
         /\ UNCHANGED <<viewVars, patches>>

\* `const previousData = { ...updates }` of the field-update mutations
PreviousData(entity, updates) == updates

\* useUpdateGoal.updateGoalMutation
UpdateGoal ==
  \E id \in Ids(dbGoals), updates \in PartialGoals :
    IF ChecksOnline("updateGoal") /\ ~online
      THEN RejectOffline("updateGoal")
      ELSE LET shown == MergedGoals(dbGoals, optimisticGoals)
           IN  /\ StartCall("updateGoal", id, updates,
                            PreviousData(Find(shown, id), updates), shown)
               /\ optimisticGoals' =
                    handleOptimisticUpdate(optimisticGoals, dbGoals, id, updates)
               /\ patches' = patches + 1
               /\ UNCHANGED <<cats, optimisticTransactions, error>>

\* The patch addContributionMutation hands to onOptimisticUpdate, and the
\* data it hands to onRollback
ContributionPatch(amount) == GoalUpdates(Some(amount), Undefined)
ContributionRollback(amount) == GoalUpdates(Some(-amount), Undefined)

\* useUpdateGoal.addContributionMutation
AddContribution ==
  \E id \in Ids(dbGoals), amount \in Amounts :
    IF ChecksOnline("addContribution") /\ ~online
      THEN RejectOffline("addContribution")
      ELSE /\ StartCall("addContribution", id, ContributionPatch(amount),
                        ContributionRollback(amount),
                        MergedGoals(dbGoals, optimisticGoals))
           /\ optimisticGoals' =
                handleOptimisticUpdate(optimisticGoals, dbGoals, id,
                                       ContributionPatch(amount))
           /\ patches' = patches + 1
           /\ UNCHANGED <<cats, optimisticTransactions, error>>

\* useUpdateCategory.updateCategoryMutation
UpdateCategory ==
  \E id \in Ids(cats), updates \in PartialCategories :
    IF ChecksOnline("updateCategory") /\ ~online
      THEN RejectOffline("updateCategory")
      ELSE /\ StartCall("updateCategory", id, updates,
                        PreviousData(Find(cats, id), updates), cats)
           /\ cats' = categoryPatch(cats, id, updates)
           /\ patches' = patches + 1
           /\ UNCHANGED <<optimisticGoals, optimisticTransactions, error>>

\* What a successful goal mutation leaves in the remote store
\* (services/goals.ts updateGoal, addContribution).
GoalsAfter(rows, m) ==
  [i \in 1..Len(rows) |->
     IF rows[i].id # m.target THEN rows[i]
     ELSE IF m.kind = "addContribution"
       THEN [rows[i] EXCEPT !.current_amount = @ + m.updates.current_amount.val]
     ELSE IF m.kind = "updateGoal"
       THEN Goal(rows[i].id,
                 Spread(rows[i].current_amount, m.updates.current_amount),
                 Spread(rows[i].target_amount, m.updates.target_amount))
     ELSE rows[i]]

\* The Entity Service call of m resolves: the entry point returns.
MutationSucceedsFor(m) ==
  /\ m \in pending
  /\ pending' = pending \ {m}
  /\ hooks' = Settled(hooks, m.kind, hooks[HookOf(m.kind)].error)
  /\ srvGoals' = GoalsAfter(srvGoals, m)
  /\ IF m.kind = "clearMessages"
       THEN /\ coll' = <<>>
            /\ cache' = [cache EXCEPT ![m.target] = NoEntry]
            /\ remote' = [remote EXCEPT ![m.target] = <<>>]
       ELSE UNCHANGED <<coll, cache, remote>>
  /\ IF m.kind = "addTransaction"
       THEN /\ srvTransactions' =
                 <<PersistedTransaction(srvTransactions, m.updates)>>
                   \o srvTransactions
            /\ timers' = timers \cup {m.updates}
       ELSE UNCHANGED <<srvTransactions, timers>>
  /\ lastMut' = "settled"
  /\ UNCHANGED <<online, now, dbGoals, viewVars, remoteCalls, patches, error,
                 dbTransactions, localCache>>
  /\ UNCHANGED <<retryVars, otherStoreVars>>

MutationSucceeds == \E m \in pending : MutationSucceedsFor(m)

\* The Entity Service call of m rejects: the catch and finally blocks.
MutationFailsFor(m) ==
  /\ m \in pending
  /\ pending' = pending \ {m}
  /\ \E e \in MutationErrors :
       IF m.kind = "clearMessages"
         THEN error' = ErrMessage(e) /\ UNCHANGED hooks
         ELSE hooks' = Settled(hooks, m.kind, ErrMessage(e)) /\ UNCHANGED error
  /\ optimisticGoals' =
       IF m.kind \in {"updateGoal", "addContribution"}
         THEN handleRollback(optimisticGoals, m.target, m.rollback)
         ELSE optimisticGoals
  /\ cats' = IF m.kind = "updateCategory"
               THEN categoryPatch(cats, m.target, m.rollback) ELSE cats
  /\ optimisticTransactions' =
       IF m.kind = "addTransaction"
         THEN handleRollbackAdd(optimisticTransactions, m.target)
         ELSE optimisticTransactions
  /\ lastMut' = "settled"
  /\ UNCHANGED <<online, now, srvGoals, dbGoals, remoteCalls, patches, txVars>>
  /\ UNCHANGED <<retryVars, otherStoreVars, coll, cache, remote>>

MutationFails == \E m \in pending : MutationFailsFor(m)

\* useGoals delivers the goals of the remote store (fetch or ChangeEvent)
\* and writes them to localStorage; the Goals component's effect clears
\* optimisticGoals
GoalsRefetched ==
  /\ dbGoals' = srvGoals
  /\ localCache' = [localCache EXCEPT !.goals = srvGoals]
  /\ optimisticGoals' = IF Len(srvGoals) > 0 THEN <<>> ELSE optimisticGoals
  /\ lastMut' = "settled"
  /\ UNCHANGED <<online, now, cats, srvGoals, optimisticTransactions, hooks,
                 pending, remoteCalls, patches, srvTransactions,
                 dbTransactions, timers>>
  /\ UNCHANGED <<retryVars, storeVars>>

\* useTransactions delivers the transactions of the remote store (fetch or
\* ChangeEvent) to AppProvider and writes them to localStorage
TransactionsRefetchedCachingView ==
  /\ dbTransactions' = srvTransactions
  /\ localCache' = [localCache EXCEPT !.transactions =
                      MergedTransactions(srvTransactions, optimisticTransactions)]
  /\ lastMut' = "settled"
  /\ UNCHANGED <<online, now, cats, srvGoals, dbGoals, optimisticGoals,
                 optimisticTransactions, hooks, pending, remoteCalls, patches,
                 srvTransactions, timers>>
  /\ UNCHANGED <<retryVars, storeVars>>
TransactionsRefetched ==
  /\ dbTransactions' = srvTransactions
  /\ localCache' = [localCache EXCEPT !.transactions = srvTransactions]
  /\ lastMut' = "settled"
  /\ UNCHANGED <<online, now, cats, srvGoals, dbGoals, optimisticGoals,
                 optimisticTransactions, hooks, pending, remoteCalls, patches,
                 srvTransactions, timers>>
  /\ UNCHANGED <<retryVars, storeVars>>

\* AppProvider.addExpense: the timer set after a successful add fires
TimerFires ==
  \E expense \in timers :
    /\ optimisticTransactions' = ClearOptimistic(optimisticTransactions, expense)
    /\ timers' = timers \ {expense}
    /\ lastMut' = "settled"
    /\ UNCHANGED <<online, now, cats, srvGoals, dbGoals, optimisticGoals, hooks,
                   pending, remoteCalls, patches, srvTransactions,
                   dbTransactions, localCache>>
    /\ UNCHANGED <<retryVars, storeVars>>

\* The browser's online / offline events
ConnectivityChanges ==
  /\ online' = ~online
  /\ UNCHANGED <<now, cats, srvGoals, dbGoals, optimisticGoals,
                 optimisticTransactions, hooks, pending, remoteCalls, patches,
                 lastMut>>
  /\ UNCHANGED <<retryVars, storeVars, txVars>>

\* The clock advances by a millisecond
Tick ==
  /\ now < MaxNow
  /\ now' = now + 1
  /\ UNCHANGED <<online, cats, srvGoals, dbGoals, optimisticGoals,
                 optimisticTransactions, hooks, pending, remoteCalls, patches,
                 lastMut>>
  /\ UNCHANGED <<retryVars, storeVars, txVars>>

MutNext ==
  \/ AddTransaction
  \/ DeleteTransaction
  \/ AddGoal
  \/ AddMessage
  \/ ClearMessages
  \/ UpdateGoal
  \/ AddContribution
  \/ UpdateCategory
  \/ MutationSucceeds
  \/ MutationFails
  \/ GoalsRefetched
  \/ TransactionsRefetched
  \/ TimerFires
  \/ ConnectivityChanges
  \/ Tick

\* AppProvider.addExpense alone: the steps that touch the transactions.
ExpenseNext ==
  \/ AddTransaction
  \/ MutationSucceeds
  \/ MutationFails
  \/ TransactionsRefetched
  \/ TimerFires
  \/ ConnectivityChanges
  \/ Tick

(***************************************************************************)
(* Specifications                                                          *)
(***************************************************************************)

\* One call of a retry wrapper; no hook is rendered.
InitRetry == RetryInit /\ svc = IdleService /\ contrib = IdleContrib /\ StoreIdle /\ MutIdle

SpecRetry == InitRetry /\ [][RetryNext]_vars

\* The event loop runs every continuation that is ready and every timer fires.
SpecRetryFair == SpecRetry /\ WF_vars(RetryNext)

\* One Sync Store hook of one entity type.
InitStore == rw = IdleFrame /\ svc = IdleService /\ contrib = IdleContrib /\ StoreInit /\ MutIdle

SpecStore == InitStore /\ [][StoreNext]_vars

\* The mutation hooks with the Goals component, AppProvider and useChatHistory.
InitMut == rw = IdleFrame /\ svc = IdleService /\ contrib = IdleContrib /\ MutStoreInit /\ MutInit

SpecMut == InitMut /\ [][MutNext]_vars

\* AppProvider with useAddTransaction and useTransactions only.
SpecExpense == InitMut /\ [][ExpenseNext]_vars

\* Every createTransaction call resolves and every timer fires.
SpecExpenseFair ==
  SpecExpense /\ WF_vars(MutationSucceeds \/ MutationFails) /\ WF_vars(TimerFires)

\* One createTransaction or deleteTransaction call of the transactions service.
InitTxService == rw = IdleFrame /\ TxServiceInit /\ contrib = IdleContrib /\ StoreIdle /\ MutIdle

SpecTxService == InitTxService /\ [][TxServiceNext]_vars

\* Every request the service sends is answered.
SpecTxServiceFair == SpecTxService /\ WF_vars(TxServiceSteps)

\* Two addContribution calls on one goal.
InitContrib ==
  rw = IdleFrame /\ svc = IdleService /\ ContribInit /\ StoreIdle /\ MutIdle

SpecContrib == InitContrib /\ [][ContribNext]_vars

(***************************************************************************)
(* Properties                                                              *)
(***************************************************************************)

\* C1: while navigator.onLine is false no step starts an Entity Service call
\* and no step applies an optimistic patch, whichever mutation entry point
\* is invoked.
OfflineShortCircuit ==
  [][~online => remoteCalls' = remoteCalls /\ patches' = patches]_vars

\* C2: when the remote call of a field-update mutation (updateCategoryMutation,
\* updateGoalMutation) fails and no other mutation overlaps it, the rollback
\* leaves the visible Collection as it was when the mutation was invoked.
RollbackRestoresFields ==
  [][\A m \in pending :
       (m.kind \in {"updateCategory", "updateGoal"} /\ pending = {m}
          /\ MutationFailsFor(m))
       => IF m.kind = "updateCategory"
            THEN cats' = m.before
            ELSE MergedGoals(dbGoals', optimisticGoals') = m.before]_vars

\* C3: when addContributionMutation fails and no other mutation overlaps it,
\* the goal's visible current_amount is again what it was before the call.
ContributionRollbackRestores ==
  [][\A m \in pending :
       (m.kind = "addContribution" /\ pending = {m} /\ MutationFailsFor(m))
       => Find(MergedGoals(dbGoals', optimisticGoals'), m.target).current_amount
            = Find(m.before, m.target).current_amount]_vars

\* What the list call of c returned to the hook.
Returned(c) ==
  IF c.phase = "create" THEN c.data
  ELSE ListResult(etype, remote[c.owner], c.offset)

\* The rows fetchCategories created for the fixed names missing in the list.
Created(c) ==
  IF c.phase = "create"
    THEN CreatedRows(c.owner, remote[c.owner], MissingCategories(c.data))
    ELSE <<>>

\* The step in which the fetch function of the hook finishes after a
\* successful list of c.
FetchCompletes(c) ==
  /\ c.src # "event"
  /\ \/ ListSucceedsFor(c) /\ Cardinality(calls') < Cardinality(calls)
     \/ CreateMissingSucceedsFor(c)

SameRows(s, t) ==
  /\ Len(s) = Len(t)
  /\ \A r \in { s[i] : i \in 1..Len(s) } \cup { t[i] : i \in 1..Len(t) } :
       Cardinality({ i \in 1..Len(s) : s[i] = r })
         = Cardinality({ i \in 1..Len(t) : t[i] = r })

FixedRank(name) ==
  IF name \in FixedNames
    THEN CHOOSE i \in 1..Len(FIXED_CATEGORIES) : FIXED_CATEGORIES[i] = name
    ELSE Len(FIXED_CATEGORIES) + 1

FixedFirst(s) ==
  \A i, j \in 1..Len(s) : i < j => FixedRank(s[i].name) <= FixedRank(s[j].name)

SingleListInFlight ==
  \A u \in Users :
    Cardinality({ c \in calls : c.owner = u /\ c.phase = "list" }) <= 1

\* The step in which the continuation of call c runs to its end or to its
\* next await.
Resolves(c) ==
  \/ ListSucceedsFor(c) \/ ListFailsFor(c)
  \/ CreateMissingSucceedsFor(c) \/ CreateMissingFailsFor(c)

\* C9: the result of a list issued for an owner the hook no longer has, or
\* issued before the hook unmounted, changes nothing of the hook's exposed
\* state.
StaleListDiscarded ==
  [][\A c \in calls :
       ((c.orphan \/ c.owner # user) /\ Resolves(c))
       => UNCHANGED <<coll, loading, error, offset, hasMore>>]_vars

Classified(e) == transformError(e).type

\* C6: with maxRetries = 3 the shared withRetry never makes a fifth attempt,
\* and when it raises an error its predicate accepts (so every attempt
\* failed with an accepted error) it has made exactly 4 attempts; it ends by
\* returning or raising.
RetryCeiling ==
  /\ [](rw.impl = "shared" /\ rw.config.maxRetries = 3
          => /\ rw.calls <= 4
             /\ (rw.pc = "raised" /\ shouldRetry(rw.config, rw.lastError))
                  => rw.calls = 4 /\ rw.waits = 3)
  /\ <>(rw.pc \in {"returned", "raised"})

\* C6 witness: four attempts failed with accepted errors, the last is raised.
RetriesExhausted ==
  /\ rw.impl = "shared" /\ rw.config.maxRetries = 3 /\ rw.pc = "raised"
  /\ shouldRetry(rw.config, rw.lastError) /\ rw.calls = 4
  /\ rw.raised = rw.lastError

\* C7: under DEFAULT_RETRY_OPTIONS an operation whose first failure is
\* classified Validation is attempted once: the error is raised without a
\* backoff wait and without a second attempt.
ValidationNotRetried ==
  (rw.impl = "shared" /\ rw.config = DEFAULT_RETRY_OPTIONS /\ rw.calls >= 1
     /\ Classified(rw.firstError) = VALIDATION_ERROR)
  => rw.pc = "raised" /\ rw.calls = 1 /\ rw.waits = 0
       /\ rw.raised = rw.firstError

\* C7 witness: the default wrapper raised a Validation failure.
ValidationRaised ==
  /\ rw.impl = "shared" /\ rw.config = DEFAULT_RETRY_OPTIONS
  /\ rw.pc = "raised" /\ Classified(rw.firstError) = VALIDATION_ERROR

\* C8: an Entity Service operation whose remote call fails with an error
\* classified Validation, Permission or Auth performs the call once and
\* raises without retry.
ServiceNeverRetriesNonRetryable ==
  (rw.impl = "service" /\ rw.calls >= 1
     /\ Classified(rw.firstError)
          \in {VALIDATION_ERROR, PERMISSION_ERROR, AUTH_ERROR})
  => rw.pc = "raised" /\ rw.calls = 1

\* The ids useAddTransaction gives to optimistic transactions.
ProvisionalIds == { "temp-" \o ToString(t) : t \in 0..MaxNow }

\* What AppProvider exposes as `transactions`.
VisibleTransactions == MergedTransactions(dbTransactions, optimisticTransactions)

\* The persisted Collection holds an entry with a durable id and the
\* description and amount of t.
Persisted(t) ==
  \E j \in 1..Len(dbTransactions) :
    /\ dbTransactions[j].id \notin ProvisionalIds
    /\ dbTransactions[j].description = t.description
    /\ dbTransactions[j].amount = t.amount

\* C11: no transaction with a provisional id is in AppProvider's merged view
\* while the persisted Collection holds an entry with a durable id and the
\* same description and amount.
ProvisionalHiddenOncePersisted ==
  \A i \in 1..Len(VisibleTransactions) :
    VisibleTransactions[i].id \in ProvisionalIds
      => ~Persisted(VisibleTransactions[i])

\* C11 witness: an optimistic transaction is still in the optimistic list,
\* its persisted counterpart has arrived, and the view shows only the latter.
ProvisionalSuperseded ==
  \E i \in 1..Len(optimisticTransactions) :
    /\ Persisted(optimisticTransactions[i])
    /\ \A k \in 1..Len(VisibleTransactions) :
         VisibleTransactions[k].id # optimisticTransactions[i].id

\* The withRetry of retry.ts is waiting the delay calculateBackoffDelay gave
\* it for the attempt that just failed.
Backoff(attempt) ==
  rw.impl = "shared" /\ rw.pc = "wait" /\ rw.attempt = attempt

\* C12: every delay calculateBackoffDelay returns is at most maxDelay and at
\* least min(baseDelay * 2^attempt / 2, maxDelay), whatever the jitter draw.
BackoffWithinBounds ==
  \A attempt \in 0..MaxCustomRetries :
    Backoff(attempt) =>
      /\ rw.delay <= rw.config.maxDelay
      /\ rw.delay >= IF (rw.config.baseDelay * 2^attempt) \div 2
                          <= rw.config.maxDelay
                       THEN (rw.config.baseDelay * 2^attempt) \div 2
                       ELSE rw.config.maxDelay

\* C12 witness: a jittered delay above maxDelay was capped to maxDelay.
BackoffCapped ==
  \E attempt \in 1..MaxCustomRetries :
    /\ Backoff(attempt) /\ rw.delay = rw.config.maxDelay
    /\ rw.config.baseDelay * 2^attempt > rw.config.maxDelay

\* C13 as claimed: for attempt = 2, baseDelay = 1000 and maxDelay = 10000
\* every delay lies in [1500, 4500].
BackoffThirdAttemptClaimed ==
  (Backoff(2) /\ rw.config.baseDelay = 1000 /\ rw.config.maxDelay = 10000)
  => rw.delay >= 1500 /\ rw.delay <= 4500

\* C13 as amended: for attempt = 2, baseDelay = 1000 and maxDelay = 10000
\* every delay lies in [2000, 6000): 1000 * 2^2 = 4000 times a jitter in
\* [0.5, 1.5).
BackoffThirdAttempt ==
  (Backoff(2) /\ rw.config.baseDelay = 1000 /\ rw.config.maxDelay = 10000)
  => rw.delay >= 2000 /\ rw.delay < 6000

\* C13 witness: a delay for attempt 2 above the claimed 4500 ms.
BackoffThirdAttemptLong ==
  /\ Backoff(2) /\ rw.config.baseDelay = 1000 /\ rw.config.maxDelay = 10000
  /\ rw.delay > 4500

\* C14: a deleteTransaction that returns after its delete, its category read
\* and its category write all succeeded leaves the category's total at
\* max(0, v - a), v being the total it read and a the transaction's amount;
\* the total is not negative.
DeleteFloorsCategoryTotal ==
  (svc.op = "delete" /\ svc.pc = "returned" /\ svc.linked /\ svc.logged = 0)
  => /\ svc.value = (IF svc.read - svc.amount > 0
                        THEN svc.read - svc.amount ELSE 0)
     /\ svc.value >= 0
     /\ (svc.read = 20000 /\ svc.amount = 4525 => svc.value = 15475)

\* C14 witness: a delete of an amount above the category's total returned
\* and left the total at 0.
DeleteFloored ==
  /\ svc.op = "delete" /\ svc.pc = "returned" /\ svc.categoryWrites = 1
  /\ svc.read < svc.amount /\ svc.value = 0

\* C20: once the primary insert or delete has succeeded it is not executed
\* again and the call does not raise: a failure of the category read or write
\* is logged and the call returns (createTransaction with the row inserted,
\* deleteTransaction with the row gone).
SecondaryFailureSwallowed ==
  /\ [](/\ svc.primaryWrites <= 1
        /\ svc.primaryWrites = 1 => svc.pc \in {"catRead", "catWrite", "returned"}
        /\ svc.logged >= 1 => svc.pc = "returned" /\ svc.primaryWrites = 1
        /\ svc.pc = "returned"
             => /\ svc.primaryWrites = 1 /\ svc.raised = NoRawError
                /\ svc.stored = (svc.op = "create"))
  /\ ((svc.primaryWrites = 1) ~> (svc.pc = "returned"))

\* C20 witness: the category read or write failed, was logged, and the call
\* returned after a single primary write.
SecondaryFailureLogged ==
  /\ svc.pc = "returned" /\ svc.logged = 1 /\ svc.primaryWrites = 1
  /\ svc.linked /\ svc.raised = NoRawError

\* The shared withRetry has classified the failure of its last attempt, and
\* the failure came from the auth subsystem.
AuthFailureClassified ==
  rw.impl = "shared" /\ rw.calls >= 1 /\ rw.lastError.cls = "AuthError"

\* C15 as claimed: every AuthError is classified Auth.
AuthErrorsAreAuth ==
  AuthFailureClassified => Classified(rw.lastError) = AUTH_ERROR

\* C15 as amended: an AuthError is classified Auth, the invalid-credentials
\* and the unconfirmed-account case included, unless its message is the
\* duplicate-registration message 'User already registered': that one is
\* classified Validation.
AuthErrorsAreAuthUnlessDuplicate ==
  AuthFailureClassified =>
    Classified(rw.lastError) =
      (IF Includes(rw.lastError.text, "User already registered")
         THEN VALIDATION_ERROR ELSE AUTH_ERROR)

\* C15 witness: a duplicate-registration failure was classified.
DuplicateRegistrationClassified ==
  /\ AuthFailureClassified
  /\ Includes(rw.lastError.text, "User already registered")
  /\ Classified(rw.lastError) = VALIDATION_ERROR

\* What a hook's catch block puts into its error state for a raised error.
Exposed(e) == ErrMessage(e)

\* C16: the message a hook exposes for a failure an Entity Service raised is
\* the message it would expose for any other failure of the same operation
\* that is classified to the same kind.
ExposedMessageDependsOnKindOnly ==
  (rw.impl = "service" /\ rw.pc = "raised")
  => \A e \in RawErrors :
       Classified(e) = Classified(rw.lastError)
         => Exposed(handleError(e, rw.op)) = Exposed(rw.raised)

\* The entity type a mutation of an existing entity works on.
EntityOf(kind) ==
  CASE kind \in {"updateGoal", "addContribution"} -> "goal"
    [] kind = "updateCategory" -> "category"
    [] OTHER -> "none"

\* C17: no two unresolved mutations work on the same goal or on the same
\* category.
OneMutationPerEntity ==
  \A m1, m2 \in pending :
    (EntityOf(m1.kind) # "none" /\ EntityOf(m1.kind) = EntityOf(m2.kind)
       /\ m1.target = m2.target)
    => m1 = m2

\* C18: while the list issued for the current owner by the initial fetch, by
\* refetch() or by a change of owner is unresolved in a mounted hook, the
\* loading flag is true.
LoadingUntilListResolves ==
  \A c \in calls :
    (Live(c) /\ c.src = "fetch" /\ c.owner = user /\ c.phase = "list")
    => loading

\* C19: while an addContributionMutation(goalId, a) is the only unresolved
\* mutation, the goal's visible current_amount is the amount it showed when
\* the mutation was invoked plus a.
ContributionVisibleWhilePending ==
  \A m \in pending :
    (m.kind = "addContribution" /\ pending = {m})
    => Find(MergedGoals(dbGoals, optimisticGoals), m.target).current_amount
         = Find(m.before, m.target).current_amount
             + m.updates.current_amount.val

\* The two addContribution calls have both returned their updated row.
BothContributed == \A s \in Sessions : contrib.sess[s].pc = "returned"

\* C21: after two successful addContribution calls of a and b on a goal that
\* started with c, current_amount is c+a+b, c+a or c+b; it is c+a+b when one
\* call read after the other's update, and it is c+a or c+b (not c+a+b) when
\* both read before either update.
ContributionLastWriteWins ==
  BothContributed =>
    LET c == contrib.start
        a == contrib.sess["s1"].amount
        b == contrib.sess["s2"].amount
    IN  /\ contrib.current \in {c + a + b, c + a, c + b}
        /\ (\E s \in Sessions : contrib.sess[s].seen = 1)
             => contrib.current = c + a + b
        /\ (\A s \in Sessions : contrib.sess[s].seen = 0)
             => contrib.current \in {c + a, c + b}

\* C21 witness: both calls read before either update and one contribution
\* is lost.
ContributionLost ==
  /\ BothContributed
  /\ \A s \in Sessions : contrib.sess[s].seen = 0
  /\ contrib.current = contrib.start + contrib.sess["s1"].amount
  /\ contrib.current # contrib.start + contrib.sess["s2"].amount

\* C22: whenever the operation under withDatabaseRetry has just failed with
\* an error the classifier gives Validation, Permission or Auth, the wrapper
\* raises it: shouldRetry returned false and there is no backoff wait.
DatabaseRetryRejectsNonRetryable ==
  (rw.impl = "shared" /\ rw.config = withDatabaseRetry /\ rw.calls >= 1
     /\ Classified(rw.lastError)
          \in {VALIDATION_ERROR, PERMISSION_ERROR, AUTH_ERROR})
  => rw.pc = "raised" /\ ~shouldRetry(rw.config, rw.lastError)

\* C23: the error an Entity Service operation raises is classified as the
\* remote failure it was raised for: Validation for a uniqueness or
\* foreign-key violation, Permission for an access denial, Network for a
\* connectivity failure.
ServiceRaisesClassified ==
  (rw.impl = "service" /\ rw.pc = "raised")
  => Classified(rw.raised) = Classified(rw.lastError)

\* C24: when the list started by a ChangeEvent for the hook's current owner
\* succeeds in a mounted hook, the Collection and the owner's cache entry
\* become the fetched data, the error becomes null, and the loading flag is
\* not set to true.
EventRefetchEndsReady ==
  [][\A c \in calls :
       (Live(c) /\ c.src = "event" /\ c.owner = user /\ ListSucceedsFor(c))
       => LET data == ListResult(etype, remote[c.owner], c.offset)
          IN  /\ coll' = data
              /\ cache'[c.owner] = Entry(data)
              /\ error' = NoError
              /\ (loading' => loading)]_vars

\* C25: no localStorage entry ever holds a transaction with a provisional
\* (temp-) id, and every step that writes an entry stores the rows the
\* remote store holds, whatever optimistic patches are applied at that
\* moment.
CacheHoldsOnlyRemoteData ==
  /\ [](\A i \in 1..Len(localCache.transactions) :
          localCache.transactions[i].id \notin ProvisionalIds)
  /\ [][/\ localCache'.transactions # localCache.transactions
             => localCache'.transactions = srvTransactions
        /\ localCache'.goals # localCache.goals
             => localCache'.goals = srvGoals]_vars

\* C25 witness: the cache was written with persisted transactions while an
\* optimistic insert and an optimistic goal patch are shown.
CacheWrittenWhileOptimistic ==
  /\ localCache.transactions # <<>>
  /\ localCache.transactions = srvTransactions
  /\ \E i \in 1..Len(optimisticTransactions) :
       optimisticTransactions[i].id \in ProvisionalIds
  /\ optimisticGoals # <<>>
  /\ localCache.goals # MergedGoals(dbGoals, optimisticGoals)

\* C26: two addTransaction invocations whose createTransaction calls are
\* both unresolved never hold the same provisional id.
ProvisionalIdsUnique ==
  \A m1, m2 \in pending :
    (m1.kind = "addTransaction" /\ m2.kind = "addTransaction" /\ m1 # m2)
    => m1.target # m2.target

\* C27: while the createTransaction call of an addTransaction invocation is
\* unresolved and its optimistic entry is in AppProvider's optimistic set,
\* the merged `transactions` AppProvider exposes contain the entry with the
\* provisional id.
ProvisionalVisibleWhilePending ==
  \A m \in pending :
    (m.kind = "addTransaction"
       /\ \E i \in 1..Len(optimisticTransactions) :
            optimisticTransactions[i].id = m.target)
    => \E i \in 1..Len(VisibleTransactions) :
         VisibleTransactions[i].id = m.target

\* C28: the result of a fetch or ChangeEvent list issued before a list of
\* the same owner whose result has already been applied changes neither the
\* Collection nor the cache.
OlderListNeverOverwrites ==
  [][\A d \in calls :
       (d.stale /\ d.src # "more"
          /\ (ListSucceedsFor(d) \/ CreateMissingSucceedsFor(d)))
       => coll' = coll /\ cache' = cache]_vars

\* The optimistic transactions addTransaction can build.
OptimisticEntries ==
  { OptimisticTransaction(d, a, t) :
      d \in Descriptions, a \in Amounts, t \in 0..MaxNow }

\* Entry e is in AppProvider's optimistic set.
InOptimisticSet(e) ==
  \E i \in 1..Len(optimisticTransactions) : optimisticTransactions[i] = e

\* C29: when every createTransaction call resolves and every timer fires,
\* each optimistic transaction in AppProvider's optimistic set is eventually
\* out of it.
OptimisticEventuallyRemoved ==
  \A e \in OptimisticEntries : InOptimisticSet(e) ~> ~InOptimisticSet(e)

\* C29 witness: an insert succeeded and the post-success cleanup emptied the
\* optimistic set.
OptimisticCleanedAfterSuccess ==
  /\ optimisticTransactions = <<>> /\ srvTransactions # <<>>
  /\ timers = {} /\ pending = {} /\ patches > 0

\* C30: when a loadMore page arrives while the transactions Collection holds
\* the first k pages of the owner's rows, newest first, the Collection
\* becomes the first k+1 pages and holds no transaction id twice.
LoadMoreAppendsNextPage ==
  [][\A c \in calls :
       (etype = "transactions" /\ Live(c) /\ c.src = "more" /\ c.owner = user
          /\ Len(coll) > 0 /\ Len(coll) % Limit = 0
          /\ coll = getTransactions(remote[user], Len(coll), 0)
          /\ ListSucceedsFor(c))
       => /\ coll' = getTransactions(remote[user], Len(coll) + Limit, 0)
          /\ \A i, j \in 1..Len(coll') : coll'[i].id = coll'[j].id => i = j]_vars

====
